---- MODULE Spec2Model ----
(***************************************************************************)
(* Model of the per-pod SSE connection registry (connection-registry.js)   *)
(* and of the handlers that drive it.  Node.js runs every handler to       *)
(* completion, so each handler is one action; register() is split at its   *)
(* statement boundaries (pc) so that the order of its effects is visible,  *)
(* and no other handler runs while pc # "idle".                            *)
(* The router (redis-subscriber.js) and gracefulShutdown (index.js) are    *)
(* modelled the same way; each part has a specification of its own:        *)
(*   Spec          the registry and its entries, called directly           *)
(*   SpecRouter    'message' events routed to the registry                 *)
(*   SpecBus       the bus client's events while clients come and go       *)
(*   SpecLink      the bus client alone, with the progress it makes        *)
(*   SpecRetry     the reconnect policy as a function                      *)
(*   SpecShutdown  shutdown signals, closeAll() and disconnect()           *)
(*   SpecStatus    the bus client from start() to process.exit             *)
(*   SpecPods      several processes, each with its own registry           *)
(*   SpecHttp      POST /register and GET /events/:clientName              *)
(*   SpecConstruct register() with a constructor that may throw            *)
(*   SpecOrder     numbered events and heartbeats on one response          *)
(*   SpecBeat      events and heartbeats on a running clock                *)
(***************************************************************************)
EXTENDS Integers, Sequences, FiniteSets, TLC

\* ---- bounds -------------------------------------------------------------
MaxEntries == 2
MaxWrites == 1
MaxTime == 1
MaxTimes == 25
MaxSignals == 2
MaxPodEntries == 1
MaxPublished == 2
MaxLog == 3
MaxClients == 1

ClientNames == {"A", "B"}
Pods == {"pod-1", "pod-2"}
Transports == {10 + i : i \in 1..MaxEntries}
Outcomes == {"ok", "false", "throw"}
NULL == 0

VARIABLES
  connections,   \* ConnectionRegistry.connections : Map clientName -> entry
  entries,       \* every ConnectionEntry constructed so far, by identity
  timers,        \* interval handles armed in the event loop
  written,       \* per transport: the response.write() calls made on it
  endCalls,      \* per transport: number of response.end() calls
  clearCalls,    \* per entry: number of clearInterval() calls
  removals,      \* per entry: times it was deleted from the Map
  now,           \* wall clock (new Date())
  pc,            \* position inside register()
  args,          \* arguments and locals of the latest register() call
  ret,           \* the last handler run and what it returned
  fault,         \* an exception escaped the last handler
  endFaulty,     \* the responses whose end() throws
  subscriber,    \* RedisSubscriber.subscriber: NULL or the ioredis client
  isConnected,   \* RedisSubscriber.isConnected
  reconnectAttempts, \* RedisSubscriber.reconnectAttempts
  redis,         \* the ioredis client: its status, retry counter, quit() calls
  connectResult, \* the promise of connect(): "none", "pending", "true", "false"
  awaiting,      \* disconnect() calls suspended at `await quit()`
  shutdown,      \* gracefulShutdown(): signals handled, entries at the first, exit
  msg,           \* the latest 'message' event and what handling it did
  calls,         \* the retryStrategy calls observed: <<times, result>> pairs
  pods,          \* per process of a deployment: its own registry and entries
  inbox,         \* per process: the channel messages not yet delivered to it
  published      \* number of messages published on the channel

heapvars == <<connections, entries, timers, written, endCalls, clearCalls, removals>>
busvars == <<subscriber, isConnected, reconnectAttempts, redis, connectResult, awaiting>>
sidevars == <<pods, inbox, published>>
envvars == <<endFaulty, shutdown, msg, calls, sidevars>>
vars == <<connections, entries, timers, written, endCalls, clearCalls, removals,
          now, pc, args, ret, fault, busvars, envvars>>

\* ---- the mutable objects, as one value ------------------------------------
Heap ==
  [connections |-> connections, entries |-> entries, timers |-> timers,
   written |-> written, endCalls |-> endCalls, clearCalls |-> clearCalls,
   removals |-> removals, thrown |-> FALSE]

Commit(h) ==
  /\ connections' = h.connections
  /\ entries' = h.entries
  /\ timers' = h.timers
  /\ written' = h.written
  /\ endCalls' = h.endCalls
  /\ clearCalls' = h.clearCalls
  /\ removals' = h.removals
  /\ fault' = h.thrown

EntryIds == 1..Len(entries)

\* ---- ConnectionRegistry: lookups ------------------------------------------
has(h, clientName) == clientName \in DOMAIN h.connections

get(h, clientName) ==
  IF clientName \in DOMAIN h.connections THEN h.connections[clientName] ELSE NULL

count(h) == Cardinality(DOMAIN h.connections)

\* Map.delete(clientName): drops the key, whatever entry it maps to
mapDelete(h, clientName) ==
  IF clientName \in DOMAIN h.connections
  THEN LET e == h.connections[clientName]
       IN [h EXCEPT !.connections =
                      [c \in (DOMAIN h.connections) \ {clientName} |-> h.connections[c]],
                    !.removals[e] = @ + 1]
  ELSE h

removeClears(h, clientName) ==
  [h |-> [h EXCEPT !.connections = << >>], existed |-> clientName \in DOMAIN h.connections]

removeReportsTrue(h, clientName) ==
  [h |-> mapDelete(h, clientName), existed |-> TRUE]

remove(h, clientName) ==
  [h |-> mapDelete(h, clientName), existed |-> clientName \in DOMAIN h.connections]

\* ---- ConnectionEntry ------------------------------------------------------
\* this.response.end(): counted; it throws on the responses in endFaulty
end(h, e) ==
  [h EXCEPT !.endCalls[h.entries[e].response] = @ + 1,
            !.thrown = (h.entries[e].response \in endFaulty)]

closeUnguarded(h, e) ==
  LET h1 == [h EXCEPT !.entries[e].isAlive = FALSE]
      h2 == IF h1.entries[e].heartbeatInterval # NULL
            THEN [h1 EXCEPT !.timers = @ \ {h1.entries[e].heartbeatInterval},
                            !.entries[e].heartbeatInterval = NULL,
                            !.clearCalls[e] = @ + 1]
            ELSE h1
      h3 == end(h2, e)
      h4 == [h3 EXCEPT !.thrown = FALSE]
  IN remove(h4, h4.entries[e].clientName).h

closeAlwaysRemove(h, e) ==
  IF ~h.entries[e].isAlive
  THEN remove(h, h.entries[e].clientName).h
  ELSE closeUnguarded(h, e)

closeKeepsTimer(h, e) ==
  IF ~h.entries[e].isAlive
  THEN h
  ELSE LET h1 == [h EXCEPT !.entries[e].isAlive = FALSE]
           h3 == end(h1, e)
           h4 == [h3 EXCEPT !.thrown = FALSE]
       IN remove(h4, h4.entries[e].clientName).h

closeKeepsKey(h, e) ==
  IF ~h.entries[e].isAlive
  THEN h
  ELSE LET h1 == [h EXCEPT !.entries[e].isAlive = FALSE]
           h2 == IF h1.entries[e].heartbeatInterval # NULL
                 THEN [h1 EXCEPT !.timers = @ \ {h1.entries[e].heartbeatInterval},
                                 !.entries[e].heartbeatInterval = NULL,
                                 !.clearCalls[e] = @ + 1]
                 ELSE h1
           h3 == end(h2, e)
       IN [h3 EXCEPT !.thrown = FALSE]

closeNoCatch(h, e) ==
  IF ~h.entries[e].isAlive
  THEN h
  ELSE LET h1 == [h EXCEPT !.entries[e].isAlive = FALSE]
           h2 == IF h1.entries[e].heartbeatInterval # NULL
                 THEN [h1 EXCEPT !.timers = @ \ {h1.entries[e].heartbeatInterval},
                                 !.entries[e].heartbeatInterval = NULL,
                                 !.clearCalls[e] = @ + 1]
                 ELSE h1
           h3 == end(h2, e)
       IN IF h3.thrown THEN h3 ELSE remove(h3, h3.entries[e].clientName).h

close(h, e) ==
  IF ~h.entries[e].isAlive
  THEN h
  ELSE LET h1 == [h EXCEPT !.entries[e].isAlive = FALSE]
           h2 == IF h1.entries[e].heartbeatInterval # NULL
                 THEN [h1 EXCEPT !.timers = @ \ {h1.entries[e].heartbeatInterval},
                                 !.entries[e].heartbeatInterval = NULL,
                                 !.clearCalls[e] = @ + 1]
                 ELSE h1
           h3 == end(h2, e)
           \* lines 141-143: catch (err) { console.log(...) }
           h4 == [h3 EXCEPT !.thrown = FALSE]
       IN remove(h4, h4.entries[e].clientName).h

\* the 'close' / 'error' / 'finish' listener installed by setupDisconnectHandlers
cleanupUnguarded(h, e) == closeUnguarded(h, e)

cleanup(h, e) == IF h.entries[e].isAlive THEN close(h, e) ELSE h

writeFront(h, e, kind, data, outcome) ==
  [h EXCEPT !.written[h.entries[e].response] =
              <<[kind |-> kind, ok |-> (outcome = "ok"), data |-> data]>> \o @]

\* response.write(chunk): the chunk goes to the end of the stream; data is
\* the object the chunk was built from, << >> when there is none
write(h, e, kind, data, outcome) ==
  [h EXCEPT !.written[h.entries[e].response] =
              Append(@, [kind |-> kind, ok |-> (outcome = "ok"), data |-> data])]

heartbeatNoClose(h, e, outcome) ==
  IF ~h.entries[e].isAlive THEN h ELSE write(h, e, "heartbeat", << >>, outcome)

heartbeatCounts(h, e, outcome) ==
  IF ~h.entries[e].isAlive
  THEN h
  ELSE LET h1 == write(h, e, "heartbeat", << >>, outcome)
       IN IF outcome = "ok"
          THEN [h1 EXCEPT !.entries[e].eventCount = @ + 1,
                          !.entries[e].lastActivity = now]
          ELSE close(h1, e)

\* the setInterval callback of startHeartbeat
heartbeat(h, e, outcome) ==
  IF ~h.entries[e].isAlive
  THEN h
  ELSE LET h1 == write(h, e, "heartbeat", << >>, outcome)
       IN IF outcome = "ok" THEN h1 ELSE close(h1, e)

sendEventUnguarded(h, e, event, outcome) ==
  LET h1 == write(h, e, "event", event.props, outcome)
  IN IF outcome = "ok"
     THEN [h |-> [h1 EXCEPT !.entries[e].eventCount = @ + 1,
                            !.entries[e].lastActivity = now],
           value |-> TRUE]
     ELSE [h |-> close(h1, e), value |-> FALSE]

sendEventTouchFirst(h, e, event, outcome) ==
  IF ~h.entries[e].isAlive
  THEN [h |-> [h EXCEPT !.entries[e].lastActivity = now], value |-> FALSE]
  ELSE sendEventUnguarded(h, e, event, outcome)

sendEventNoClose(h, e, event, outcome) ==
  IF ~h.entries[e].isAlive
  THEN [h |-> h, value |-> FALSE]
  ELSE LET h1 == write(h, e, "event", event.props, outcome)
       IN IF outcome = "ok"
          THEN [h |-> [h1 EXCEPT !.entries[e].eventCount = @ + 1,
                                 !.entries[e].lastActivity = now],
                value |-> TRUE]
          ELSE [h |-> h1, value |-> FALSE]

sendEventNoCount(h, e, event, outcome) ==
  IF ~h.entries[e].isAlive
  THEN [h |-> h, value |-> FALSE]
  ELSE LET h1 == write(h, e, "event", event.props, outcome)
       IN IF outcome = "ok"
          THEN [h |-> [h1 EXCEPT !.entries[e].lastActivity = now], value |-> TRUE]
          ELSE [h |-> close(h1, e), value |-> FALSE]

sendEvent(h, e, event, outcome) ==
  IF ~h.entries[e].isAlive
  THEN [h |-> h, value |-> FALSE]
  ELSE LET h1 == write(h, e, "event", event.props, outcome)
       IN IF outcome = "ok"
          THEN [h |-> [h1 EXCEPT !.entries[e].eventCount = @ + 1,
                                 !.entries[e].lastActivity = now],
                value |-> TRUE]
          ELSE [h |-> close(h1, e), value |-> FALSE]

getStats(h, e) ==
  [clientName |-> h.entries[e].clientName,
   lastActivity |-> h.entries[e].lastActivity,
   eventCount |-> h.entries[e].eventCount,
   isAlive |-> h.entries[e].isAlive]

\* getAll(): getStats() of every Map value, in insertion order; register()
\* deletes a key before it sets it again, so that is the order of creation
RECURSIVE statsOf(_, _)
statsOf(h, ids) ==
  IF ids = {} THEN << >>
  ELSE LET e == CHOOSE x \in ids : \A y \in ids : x <= y
       IN <<getStats(h, e)>> \o statsOf(h, ids \ {e})

getAll(h) == statsOf(h, {h.connections[c] : c \in DOMAIN h.connections})

\* new ConnectionEntry(clientName, response, podName, registry)
ConnectionEntry(h, clientName, response) ==
  LET e == Len(h.entries) + 1
  IN [h EXCEPT !.entries = Append(@, [clientName |-> clientName,
                                      response |-> response,
                                      lastActivity |-> now,
                                      heartbeatInterval |-> e,
                                      eventCount |-> 0,
                                      isAlive |-> TRUE]),
               !.timers = @ \cup {e},
               !.clearCalls = Append(@, 0),
               !.removals = Append(@, 0)]

\* ---- ConnectionRegistry: closeAll -----------------------------------------
RECURSIVE closeEach(_, _)
closeEach(h, todo) ==
  IF todo = {} THEN h
  ELSE LET e == CHOOSE x \in todo : TRUE
       \* lines 220-224: try { connection.close() } catch (err) { console.log(...) }
       IN closeEach([close(h, e) EXCEPT !.thrown = FALSE], todo \ {e})

closeAllClearOnly(h) == [h EXCEPT !.connections = << >>]

closeAll(h) ==
  LET h1 == closeEach(h, {h.connections[c] : c \in DOMAIN h.connections})
  IN [h1 EXCEPT !.connections = << >>]

\* register(clientName, response, podName) as one call
register(h, clientName, response) ==
  LET h1 == IF has(h, clientName)
            THEN mapDelete(close(h, get(h, clientName)), clientName)
            ELSE h
      h2 == ConnectionEntry(h1, clientName, response)
      connection == Len(h2.entries)
  IN [h2 EXCEPT !.connections =
                  [c \in (DOMAIN h2.connections) \cup {clientName} |->
                     IF c = clientName THEN connection ELSE h2.connections[c]]]

\* ---- RedisSubscriber: handleMessage, routeToClient ---------------------------
\* the names a published message may carry: the local ones, one that is never
\* registered on this pod, and the empty string
TargetNames == ClientNames \cup {"C", ""}

\* JSON.stringify({clientName: name}), what a publisher puts on the channel;
\* a text is the sequence of its JSON tokens
Stringify(name) == <<"{", "clientName", ":", name, "}">>

\* JSON.stringify({clientName: name, seq: n}): a publisher that numbers its events
StringifyEvent(name, n) == <<"{", "clientName", ":", name, ",", "seq", ":", n, "}">>

\* the texts that arrive on the channel: not JSON, JSON null, an object
\* without clientName, objects with a clientName
RawMessages == {<<"oops">>, <<"null">>, <<"{", "}">>} \cup {Stringify(n) : n \in TargetNames}

\* JSON.parse(message): throws a SyntaxError on text that is not JSON
JSONparse(raw) ==
  IF raw = <<"null">>
  THEN [threw |-> FALSE, value |-> [kind |-> "null", props |-> << >>]]
  ELSE IF raw = <<"{", "}">>
  THEN [threw |-> FALSE, value |-> [kind |-> "object", props |-> << >>]]
  ELSE IF Len(raw) = 5 /\ raw[1] = "{" /\ raw[3] = ":" /\ raw[5] = "}"
  THEN [threw |-> FALSE,
        value |-> [kind |-> "object", props |-> [k \in {raw[2]} |-> raw[4]]]]
  ELSE IF /\ Len(raw) = 9 /\ raw[1] = "{" /\ raw[3] = ":" /\ raw[5] = ","
          /\ raw[7] = ":" /\ raw[9] = "}"
  THEN [threw |-> FALSE,
        value |-> [kind |-> "object",
                   props |-> [k \in {raw[2], raw[6]} |->
                                IF k = raw[2] THEN raw[4] ELSE raw[8]]]]
  ELSE [threw |-> TRUE, value |-> [kind |-> "null", props |-> << >>]]

\* !event.clientName is false: the property is there and is not ""
Truthy(value, key) == key \in DOMAIN value.props /\ value.props[key] # ""

routeToClientFallback(h, event, outcome) ==
  LET clientName == event.props["clientName"]
      connection == IF has(h, clientName) THEN get(h, clientName)
                    ELSE IF DOMAIN h.connections = {} THEN NULL
                    ELSE h.connections[CHOOSE c \in DOMAIN h.connections : TRUE]
  IN IF connection = NULL
     THEN [h |-> h, log |-> "ignored", sendEventCalls |-> 0]
     ELSE LET r == sendEvent(h, connection, event, outcome)
          IN [h |-> r.h, log |-> IF r.value THEN "sent" ELSE "failed", sendEventCalls |-> 1]

routeToClientRetry(h, event, outcome) ==
  LET clientName == event.props["clientName"]
  IN IF ~has(h, clientName)
     THEN [h |-> h, log |-> "ignored", sendEventCalls |-> 0]
     ELSE LET connection == get(h, clientName)
              r == sendEvent(h, connection, event, outcome)
              again == sendEvent(r.h, connection, event, outcome)
          IN IF r.value
             THEN [h |-> r.h, log |-> "sent", sendEventCalls |-> 1]
             ELSE [h |-> again.h,
                   log |-> IF again.value THEN "sent" ELSE "failed",
                   sendEventCalls |-> 2]

routeToClientFirst(h, event, outcome) ==
  LET clientName == event.props["clientName"]
  IN IF ~has(h, clientName)
     THEN [h |-> h, log |-> "ignored", sendEventCalls |-> 0]
     ELSE LET connection == h.connections[CHOOSE c \in DOMAIN h.connections : TRUE]
              r == sendEvent(h, connection, event, outcome)
          IN [h |-> r.h,
              log |-> IF r.value THEN "sent" ELSE "failed",
              sendEventCalls |-> 1]

routeToClient(h, event, outcome) ==
  LET clientName == event.props["clientName"]
  IN IF ~has(h, clientName)
     THEN [h |-> h, log |-> "ignored", sendEventCalls |-> 0]
     ELSE LET connection == get(h, clientName)
          IN IF connection = NULL
             THEN [h |-> h, log |-> "notfound", sendEventCalls |-> 0]
             ELSE LET r == sendEvent(h, connection, event, outcome)
                  IN [h |-> r.h,
                      log |-> IF r.value THEN "sent" ELSE "failed",
                      sendEventCalls |-> 1]

handleMessageNoCatch(h, raw, outcome) ==
  LET p == JSONparse(raw)
  IN IF p.threw \/ p.value.kind = "null"
     THEN [h |-> [h EXCEPT !.thrown = TRUE], log |-> "none", sendEventCalls |-> 0]
     ELSE IF ~Truthy(p.value, "clientName")
     THEN [h |-> h, log |-> "invalid", sendEventCalls |-> 0]
     ELSE routeToClient(h, p.value, outcome)

\* the 'message' listener; reading a property of null throws a TypeError,
\* which the catch of lines 107-109 logs like the SyntaxError of JSON.parse
handleMessage(h, raw, outcome) ==
  LET p == JSONparse(raw)
  IN IF p.threw \/ p.value.kind = "null"
     THEN [h |-> h, log |-> "error", sendEventCalls |-> 0]
     ELSE IF ~Truthy(p.value, "clientName")
     THEN [h |-> h, log |-> "invalid", sendEventCalls |-> 0]
     ELSE routeToClient(h, p.value, outcome)

\* ---- RedisSubscriber: the reconnect policy ------------------------------------
maxReconnectAttempts == 10

Min(a, b) == IF a <= b THEN a ELSE b

retryStrategyUnbounded(times) ==
  [isNumber |-> TRUE, delay |-> Min(times * 100, 2000)]

retryStrategyOffByOne(times) ==
  IF times >= maxReconnectAttempts
  THEN [isNumber |-> FALSE, delay |-> 0]
  ELSE [isNumber |-> TRUE, delay |-> Min(times * 100, 2000)]

retryStrategyCapTwenty(times) ==
  IF times > 2 * maxReconnectAttempts
  THEN [isNumber |-> FALSE, delay |-> 0]
  ELSE [isNumber |-> TRUE, delay |-> Min(times * 100, 2000)]

\* the retryStrategy option given to ioredis; null is a result that is no number
retryStrategy(times) ==
  IF times > maxReconnectAttempts
  THEN [isNumber |-> FALSE, delay |-> 0]
  ELSE [isNumber |-> TRUE, delay |-> Min(times * 100, 2000)]

\* ---- initial state ----------------------------------------------------------
\* no register() has been called yet
NoMsg == [raw |-> << >>, log |-> "none", sendEventCalls |-> 0]
NoArgs == [clientName |-> "", response |-> NULL, oldConnection |-> NULL, entry |-> NULL]

\* new ConnectionRegistry(): an empty Map, nothing has run yet
InitRegistry ==
  /\ connections = << >>
  /\ entries = << >>
  /\ timers = {}
  /\ written = [t \in Transports |-> << >>]
  /\ endCalls = [t \in Transports |-> 0]
  /\ clearCalls = << >>
  /\ removals = << >>
  /\ now = 0
  /\ pc = "idle"
  /\ args = NoArgs
  /\ ret = [op |-> "none", entry |-> NULL, value |-> FALSE]
  /\ fault = FALSE

\* new RedisSubscriber(config): no client yet
InitSubscriber ==
  /\ subscriber = NULL
  /\ isConnected = FALSE
  /\ reconnectAttempts = 0
  /\ redis = [status |-> "none", retryAttempts |-> 0, quits |-> 0]
  /\ connectResult = "none"
  /\ awaiting = 0

\* a process that has just loaded connection-registry.js
EmptyHeap ==
  [connections |-> << >>, entries |-> << >>, timers |-> {},
   written |-> [t \in Transports |-> << >>], endCalls |-> [t \in Transports |-> 0],
   clearCalls |-> << >>, removals |-> << >>, thrown |-> FALSE]

\* every process of the deployment has started; nothing is published yet
InitSide ==
  /\ pods = [p \in Pods |-> EmptyHeap]
  /\ inbox = [p \in Pods |-> << >>]
  /\ published = 0

\* no signal, no message, no retryStrategy call yet
InitEnv ==
  /\ shutdown = [signals |-> 0, atSignal |-> 0, exited |-> FALSE]
  /\ msg = NoMsg
  /\ calls = << >>
  /\ InitSide

Init ==
  /\ InitRegistry
  /\ InitSubscriber
  /\ InitEnv
  /\ endFaulty = {}

UsedTransports == {entries[e].response : e \in EntryIds}

\* ---- register(clientName, response, podName), statement by statement --------
RegisterCallNoEvict(clientName, response) ==
  /\ pc = "idle"
  /\ Len(entries) < MaxEntries
  /\ response \notin UsedTransports
  /\ \A t \in Transports \ UsedTransports : response <= t
  /\ pc' = "construct"
  /\ args' = [clientName |-> clientName, response |-> response, oldConnection |-> NULL, entry |-> NULL]
  /\ ret' = [op |-> "register", entry |-> NULL, value |-> FALSE]
  /\ UNCHANGED <<heapvars, now, fault, busvars, envvars>>

RegisterCallFirstWins(clientName, response) ==
  /\ pc = "idle"
  /\ Len(entries) < MaxEntries
  /\ response \notin UsedTransports
  /\ \A t \in Transports \ UsedTransports : response <= t
  /\ pc' = IF has(Heap, clientName) THEN "idle" ELSE "construct"
  /\ args' = [clientName |-> clientName, response |-> response, oldConnection |-> NULL, entry |-> NULL]
  /\ ret' = IF has(Heap, clientName)
            THEN [op |-> "register", entry |-> get(Heap, clientName), value |-> TRUE]
            ELSE [op |-> "register", entry |-> NULL, value |-> FALSE]
  /\ UNCHANGED <<heapvars, now, fault, busvars, envvars>>

\* line 167: the has() test
RegisterCall(clientName, response) ==
  /\ pc = "idle"
  /\ Len(entries) < MaxEntries
  /\ response \notin UsedTransports
  /\ \A t \in Transports \ UsedTransports : response <= t
  /\ pc' = IF has(Heap, clientName) THEN "evict" ELSE "construct"
  /\ args' = [clientName |-> clientName, response |-> response, oldConnection |-> NULL, entry |-> NULL]
  /\ ret' = [op |-> "register", entry |-> NULL, value |-> FALSE]
  /\ UNCHANGED <<heapvars, now, fault, busvars, envvars>>

RegisterEvictNoClose ==
  /\ pc = "evict"
  /\ Commit(mapDelete(Heap, args.clientName))
  /\ args' = [args EXCEPT !.oldConnection = get(Heap, args.clientName)]
  /\ pc' = "construct"
  /\ UNCHANGED <<now, ret, busvars, envvars>>

\* lines 169-171: oldConnection.close(); this.connections.delete(clientName)
RegisterEvict ==
  /\ pc = "evict"
  /\ LET oldConnection == get(Heap, args.clientName)
     IN /\ Commit(mapDelete(close(Heap, oldConnection), args.clientName))
        /\ args' = [args EXCEPT !.oldConnection = oldConnection]
  /\ pc' = "construct"
  /\ UNCHANGED <<now, ret, busvars, envvars>>

\* line 174: new ConnectionEntry(...)
RegisterConstruct ==
  /\ pc = "construct"
  /\ Commit(ConnectionEntry(Heap, args.clientName, args.response))
  /\ args' = [args EXCEPT !.entry = Len(entries) + 1]
  /\ pc' = "set"
  /\ UNCHANGED <<now, ret, busvars, envvars>>

RegisterConstructThrowsRestores ==
  /\ pc = "construct"
  /\ connections' = IF args.oldConnection = NULL THEN connections
                    ELSE [c \in (DOMAIN connections) \cup {args.clientName} |->
                            IF c = args.clientName THEN args.oldConnection
                            ELSE connections[c]]
  /\ fault' = TRUE
  /\ pc' = "idle"
  /\ ret' = [op |-> "registerThrew", entry |-> NULL, value |-> FALSE]
  /\ UNCHANGED <<entries, timers, written, endCalls, clearCalls, removals, now, args,
                 busvars, envvars>>

\* line 174 with a response whose req cannot take listeners: the constructor
\* throws in setupDisconnectHandlers (line 37), before startHeartbeat; the
\* half-built object is dropped and the exception leaves register()
RegisterConstructThrows ==
  /\ pc = "construct"
  /\ fault' = TRUE
  /\ pc' = "idle"
  /\ ret' = [op |-> "registerThrew", entry |-> NULL, value |-> FALSE]
  /\ UNCHANGED <<heapvars, now, args, busvars, envvars>>

\* lines 175-179: this.connections.set(clientName, connection); return connection
RegisterSet ==
  /\ pc = "set"
  /\ connections' = [c \in (DOMAIN connections) \cup {args.clientName} |->
                       IF c = args.clientName THEN args.entry ELSE connections[c]]
  /\ pc' = "idle"
  /\ ret' = [op |-> "register", entry |-> args.entry, value |-> TRUE]
  /\ UNCHANGED <<entries, timers, written, endCalls, clearCalls, removals, now, args,
               fault, busvars, envvars>>

\* ---- the other handlers ------------------------------------------------------
RECURSIVE TotalWrites(_)
TotalWrites(ts) ==
  IF ts = {} THEN 0
  ELSE LET t == CHOOSE x \in ts : TRUE
       IN Len(written[t]) + TotalWrites(ts \ {t})

\* keeps the model finite: at most MaxWrites write() calls in a behaviour
CanWrite(e) == entries[e].isAlive => TotalWrites(Transports) < MaxWrites

\* a 'close' / 'error' / 'finish' event of the entry's request or response
OnSignal(e) ==
  /\ pc = "idle"
  /\ Commit(cleanup(Heap, e))
  /\ ret' = [op |-> "signal", entry |-> NULL, value |-> FALSE]
  /\ UNCHANGED <<now, pc, args, busvars, envvars>>

\* the interval fires; only an armed interval produces callbacks
OnHeartbeat(e, outcome) ==
  /\ pc = "idle"
  /\ e \in timers
  /\ CanWrite(e)
  /\ Commit(heartbeat(Heap, e, outcome))
  /\ ret' = [op |-> "heartbeat", entry |-> NULL, value |-> FALSE]
  /\ UNCHANGED <<now, pc, args, busvars, envvars>>

\* the event of a direct sendEvent call: {}
EmptyObject == [kind |-> "object", props |-> << >>]

\* entry.sendEvent(event), by whoever holds the entry; the outcome of write()
\* is only drawn when the entry is Alive, a Closed entry is not written to
CallSendEvent(e, outcome) ==
  /\ pc = "idle"
  /\ ~entries[e].isAlive => outcome = "ok"
  /\ CanWrite(e)
  /\ LET r == sendEvent(Heap, e, EmptyObject, outcome)
     IN /\ Commit(r.h)
        /\ ret' = [op |-> "sendEvent", entry |-> NULL, value |-> r.value]
  /\ UNCHANGED <<now, pc, args, busvars, envvars>>

\* entry.close(), by whoever holds the entry
CallClose(e) ==
  /\ pc = "idle"
  /\ Commit(close(Heap, e))
  /\ ret' = [op |-> "close", entry |-> NULL, value |-> FALSE]
  /\ UNCHANGED <<now, pc, args, busvars, envvars>>

CallCloseAll ==
  /\ pc = "idle"
  /\ Commit(closeAll(Heap))
  /\ ret' = [op |-> "closeAll", entry |-> NULL, value |-> FALSE]
  /\ UNCHANGED <<now, pc, args, busvars, envvars>>

\* registry.updateActivity(clientName)
CallUpdateActivity(clientName) ==
  /\ pc = "idle"
  /\ LET connection == get(Heap, clientName)
     IN IF connection # NULL
        THEN entries' = [entries EXCEPT ![connection].lastActivity = now]
        ELSE UNCHANGED entries
  /\ ret' = [op |-> "updateActivity", entry |-> NULL, value |-> FALSE]
  /\ UNCHANGED <<connections, timers, written, endCalls, clearCalls, removals, now, pc, args,
               fault, busvars, envvars>>

ClockTick ==
  /\ pc = "idle"
  /\ now < MaxTime
  /\ now' = now + 1
  /\ UNCHANGED <<heapvars, pc, args, ret, fault, busvars, envvars>>

Next ==
  \/ \E c \in ClientNames, t \in Transports : RegisterCall(c, t)
  \/ RegisterEvict
  \/ RegisterConstruct
  \/ RegisterSet
  \/ \E e \in EntryIds : OnSignal(e)
  \/ \E e \in EntryIds, o \in Outcomes : OnHeartbeat(e, o)
  \/ \E e \in EntryIds, o \in Outcomes : CallSendEvent(e, o)
  \/ \E e \in EntryIds : CallClose(e)
  \/ CallCloseAll
  \/ \E c \in ClientNames : CallUpdateActivity(c)
  \/ ClockTick

Spec == Init /\ [][Next]_vars

\* ---- the router on a connected bus --------------------------------------------
\* the entry a message would be written to, NULL when there is none
Target(raw) ==
  LET p == JSONparse(raw)
  IN IF ~p.threw /\ p.value.kind = "object" /\ Truthy(p.value, "clientName")
     THEN get(Heap, p.value.props["clientName"])
     ELSE NULL

\* a 'message' event of the subscribed client (listener attached at line 75,
\* once subscribe() has resolved); the outcome of write() is only drawn when
\* an Alive entry is going to be written to
OnMessage(raw, outcome) ==
  /\ pc = "idle"
  /\ connectResult = "true"
  /\ redis.status = "ready"
  /\ (Target(raw) = NULL \/ ~entries[Target(raw)].isAlive) => outcome = "ok"
  /\ Target(raw) # NULL => CanWrite(Target(raw))
  /\ LET r == handleMessage(Heap, raw, outcome)
     IN /\ Commit(r.h)
        /\ msg' = [raw |-> raw, log |-> r.log, sendEventCalls |-> r.sendEventCalls]
        /\ ret' = [op |-> "message", entry |-> NULL, value |-> (r.log = "sent")]
  /\ UNCHANGED <<now, pc, args, busvars, endFaulty, shutdown, calls, sidevars>>

\* start() has run: connect() subscribed and returned true
Subscribed ==
  /\ subscriber = 1
  /\ isConnected = TRUE
  /\ reconnectAttempts = 0
  /\ redis = [status |-> "ready", retryAttempts |-> 0, quits |-> 0]
  /\ connectResult = "true"
  /\ awaiting = 0

InitRouter ==
  /\ InitRegistry
  /\ Subscribed
  /\ InitEnv
  /\ endFaulty = {}

NextRouter ==
  \/ \E c \in ClientNames, t \in Transports : RegisterCall(c, t)
  \/ RegisterEvict
  \/ RegisterConstruct
  \/ RegisterSet
  \/ \E e \in EntryIds : OnSignal(e)
  \/ \E e \in EntryIds, o \in Outcomes : OnHeartbeat(e, o)
  \/ \E raw \in RawMessages, o \in Outcomes : OnMessage(raw, o)

SpecRouter == InitRouter /\ [][NextRouter]_vars

\* ---- a publisher that numbers its events ----------------------------------------
\* the interval of an entry fires; at most MaxLog write() calls in a behaviour
HeartbeatFires(e, outcome) ==
  /\ pc = "idle"
  /\ e \in timers
  /\ TotalWrites(Transports) < MaxLog
  /\ Commit(heartbeat(Heap, e, outcome))
  /\ ret' = [op |-> "heartbeat", entry |-> NULL, value |-> FALSE]
  /\ UNCHANGED <<now, pc, args, busvars, envvars>>

\* the 'message' listener runs on the next numbered event of the channel;
\* published counts the events this process has received so far
OnNumberedMessage(name, outcome) ==
  /\ pc = "idle"
  /\ connectResult = "true"
  /\ redis.status = "ready"
  /\ published < MaxPublished
  /\ TotalWrites(Transports) < MaxLog
  /\ LET raw == StringifyEvent(name, published + 1)
         r == handleMessage(Heap, raw, outcome)
     IN /\ (Target(raw) = NULL \/ ~entries[Target(raw)].isAlive) => outcome = "ok"
        /\ Commit(r.h)
        /\ msg' = [raw |-> raw, log |-> r.log, sendEventCalls |-> r.sendEventCalls]
        /\ ret' = [op |-> "message", entry |-> NULL, value |-> (r.log = "sent")]
  /\ published' = published + 1
  /\ UNCHANGED <<now, pc, args, busvars, endFaulty, shutdown, calls, pods, inbox>>

NextOrder ==
  \/ \E c \in ClientNames, t \in Transports : RegisterCall(c, t)
  \/ RegisterEvict
  \/ RegisterConstruct
  \/ RegisterSet
  \/ \E e \in EntryIds : OnSignal(e)
  \/ \E e \in EntryIds, o \in Outcomes : HeartbeatFires(e, o)
  \/ \E c \in ClientNames, o \in Outcomes : OnNumberedMessage(c, o)

SpecOrder == InitRouter /\ [][NextOrder]_vars

\* ---- heartbeats and events on a running clock ----------------------------------
\* GET /events/:clientName of a client that is not connected yet
Connect(clientName, response) ==
  /\ ~has(Heap, clientName)
  /\ Len(entries) < MaxClients
  /\ RegisterCall(clientName, response)

\* entry.sendEvent(event); at most MaxLog write() calls in a behaviour
SendFires(e, outcome) ==
  /\ pc = "idle"
  /\ ~entries[e].isAlive => outcome = "ok"
  /\ TotalWrites(Transports) < MaxLog
  /\ LET r == sendEvent(Heap, e, EmptyObject, outcome)
     IN /\ Commit(r.h)
        /\ ret' = [op |-> "sendEvent", entry |-> NULL, value |-> r.value]
  /\ UNCHANGED <<now, pc, args, busvars, envvars>>

NextBeat ==
  \/ \E c \in ClientNames, t \in Transports : Connect(c, t)
  \/ RegisterConstruct
  \/ RegisterSet
  \/ \E e \in EntryIds : OnSignal(e)
  \/ \E e \in EntryIds, o \in Outcomes : HeartbeatFires(e, o)
  \/ \E e \in EntryIds, o \in Outcomes : SendFires(e, o)
  \/ ClockTick

SpecBeat == Init /\ [][NextBeat]_vars

\* ---- the reconnect policy on its own ------------------------------------------
\* retryStrategy(times) is called and the call is kept, with the one before it
CallRetryStrategy(times) ==
  /\ LET c == [times |-> times, result |-> retryStrategy(times)]
     IN calls' = IF Len(calls) < 2 THEN Append(calls, c) ELSE <<calls[2], c>>
  /\ UNCHANGED <<heapvars, now, pc, args, ret, fault, busvars, endFaulty, shutdown, msg,
                 sidevars>>

NextRetry == \E times \in 1..MaxTimes : CallRetryStrategy(times)

SpecRetry == Init /\ [][NextRetry]_vars

\* ---- the ioredis client and the listeners connect() installs ------------------
\* start(): connect() up to `await this.subscriber.subscribe(...)`
StartConnect ==
  /\ pc = "idle"
  /\ connectResult = "none"
  /\ subscriber' = 1
  /\ redis' = [status |-> "connecting", retryAttempts |-> 0, quits |-> 0]
  /\ connectResult' = "pending"
  /\ UNCHANGED <<heapvars, now, pc, args, ret, fault, envvars,
                 isConnected, reconnectAttempts, awaiting>>

BusConnectSilent ==
  /\ pc = "idle"
  /\ redis.status = "connecting"
  /\ redis' = [redis EXCEPT !.status = "connect"]
  /\ reconnectAttempts' = 0
  /\ UNCHANGED <<heapvars, now, pc, args, ret, fault, envvars,
                 subscriber, isConnected, connectResult, awaiting>>

\* the socket connects: 'connect'
BusConnect ==
  /\ pc = "idle"
  /\ redis.status = "connecting"
  /\ redis' = [redis EXCEPT !.status = "connect"]
  /\ isConnected' = TRUE
  /\ reconnectAttempts' = 0
  /\ UNCHANGED <<heapvars, now, pc, args, ret, fault, envvars,
                 subscriber, connectResult, awaiting>>

\* the ready check passes: 'ready'; ioredis resets its retry counter and sends
\* the queued subscribe, whose reply resolves the await of line 71
BusReady ==
  /\ pc = "idle"
  /\ redis.status = "connect"
  /\ redis' = [redis EXCEPT !.status = "ready", !.retryAttempts = 0]
  /\ connectResult' = IF connectResult = "pending" THEN "true" ELSE connectResult
  /\ UNCHANGED <<heapvars, now, pc, args, ret, fault, envvars,
                 subscriber, isConnected, reconnectAttempts, awaiting>>

\* a socket error: 'error'
BusError ==
  /\ pc = "idle"
  /\ redis.status \in {"connecting", "connect", "ready"}
  /\ isConnected' = FALSE
  /\ UNCHANGED <<heapvars, now, pc, args, ret, fault, envvars,
                 subscriber, reconnectAttempts, redis, connectResult, awaiting>>

BusCloseDropsClients ==
  /\ pc = "idle"
  /\ redis.status \in {"connecting", "connect", "ready"}
  /\ redis' = [redis EXCEPT !.status = "close"]
  /\ isConnected' = FALSE
  /\ Commit(closeAll(Heap))
  /\ UNCHANGED <<now, pc, args, ret, envvars,
                 subscriber, reconnectAttempts, connectResult, awaiting>>

\* the socket closes: 'close'
BusClose ==
  /\ pc = "idle"
  /\ redis.status \in {"connecting", "connect", "ready"}
  /\ redis' = [redis EXCEPT !.status = "close"]
  /\ isConnected' = FALSE
  /\ UNCHANGED <<heapvars, now, pc, args, ret, fault, envvars,
                 subscriber, reconnectAttempts, connectResult, awaiting>>

\* after 'close' ioredis asks retryStrategy(++retryAttempts): a number
\* schedules a reconnect and emits 'reconnecting'; anything else ends the
\* client, which rejects the commands still queued (the subscribe of line 71,
\* caught at lines 80-83)
BusRetry ==
  /\ pc = "idle"
  /\ redis.status = "close"
  /\ LET times == redis.retryAttempts + 1
         retryDelay == retryStrategy(times)
     IN IF retryDelay.isNumber
        THEN /\ redis' = [redis EXCEPT !.status = "reconnecting", !.retryAttempts = times]
             /\ reconnectAttempts' = reconnectAttempts + 1
             /\ UNCHANGED <<isConnected, connectResult>>
        ELSE /\ redis' = [redis EXCEPT !.status = "end", !.retryAttempts = times]
             /\ connectResult' = IF connectResult = "pending" THEN "false" ELSE connectResult
             /\ isConnected' = IF connectResult = "pending" THEN FALSE ELSE isConnected
             /\ UNCHANGED reconnectAttempts
  /\ UNCHANGED <<heapvars, now, pc, args, ret, fault, envvars, subscriber, awaiting>>

\* the reconnect delay has passed: ioredis connects again
BusReconnect ==
  /\ pc = "idle"
  /\ redis.status = "reconnecting"
  /\ redis' = [redis EXCEPT !.status = "connecting"]
  /\ UNCHANGED <<heapvars, now, pc, args, ret, fault, envvars,
                 subscriber, isConnected, reconnectAttempts, connectResult, awaiting>>

\* GET /events/:clientName; the server listens once connect() has settled
GetEvents(clientName, response) ==
  /\ connectResult \in {"true", "false"}
  /\ RegisterCall(clientName, response)

NextBus ==
  \/ StartConnect
  \/ BusConnect
  \/ BusReady
  \/ BusError
  \/ BusClose
  \/ BusRetry
  \/ BusReconnect
  \/ \E c \in ClientNames, t \in Transports : GetEvents(c, t)
  \/ RegisterEvict
  \/ RegisterConstruct
  \/ RegisterSet
  \/ \E e \in EntryIds : OnSignal(e)
  \/ \E e \in EntryIds, o \in Outcomes : OnHeartbeat(e, o)

SpecBus == Init /\ [][NextBus]_vars

\* ---- the bus connection on its own, with the progress the client makes --------
NextLink ==
  \/ StartConnect
  \/ BusConnect
  \/ BusReady
  \/ BusError
  \/ BusClose
  \/ BusRetry
  \/ BusReconnect

\* start() calls connect(); a connection attempt succeeds or fails (connect
\* timeout); the retry decision is taken in the close handler; the reconnect
\* timer fires after its delay
FairLink ==
  /\ WF_vars(StartConnect)
  /\ WF_vars(BusConnect \/ BusClose)
  /\ WF_vars(BusRetry)
  /\ WF_vars(BusReconnect)

SpecLink == Init /\ [][NextLink]_vars /\ FairLink

\* ---- gracefulShutdown(signal) and disconnect() ---------------------------------
Running == shutdown.exited = FALSE

\* SIGTERM or SIGINT: gracefulShutdown starts; server.close() stops the
\* listener, requests on connections already open are still served
Signal ==
  /\ pc = "idle"
  /\ Running
  /\ shutdown.signals < MaxSignals
  /\ shutdown' = [shutdown EXCEPT !.signals = @ + 1,
                                  !.atSignal = IF shutdown.signals = 0
                                               THEN Len(entries) ELSE @]
  /\ pc' = "closeAll"
  /\ ret' = [op |-> "shutdown", entry |-> NULL, value |-> FALSE]
  /\ UNCHANGED <<heapvars, now, args, fault, busvars, endFaulty, msg, calls, sidevars>>

ShutdownCloseAllSkipped ==
  /\ pc = "closeAll"
  /\ pc' = "disconnect"
  /\ UNCHANGED <<heapvars, now, args, ret, fault, busvars, envvars>>

\* index.js line 368: connectionRegistry.closeAll()
ShutdownCloseAll ==
  /\ pc = "closeAll"
  /\ Commit(closeAll(Heap))
  /\ pc' = "disconnect"
  /\ UNCHANGED <<now, args, ret, busvars, envvars>>

\* index.js line 371: redisSubscriber.disconnect() runs up to its await; with
\* no client it returns at once and gracefulShutdown goes on to process.exit(0)
ShutdownDisconnect ==
  /\ pc = "disconnect"
  /\ IF subscriber # NULL
     THEN /\ redis' = [redis EXCEPT !.quits = @ + 1]
          /\ awaiting' = awaiting + 1
          /\ UNCHANGED shutdown
     ELSE /\ shutdown' = [shutdown EXCEPT !.exited = TRUE]
          /\ UNCHANGED <<redis, awaiting>>
  /\ pc' = "idle"
  /\ UNCHANGED <<heapvars, now, args, ret, fault, endFaulty, msg, calls, sidevars,
                 subscriber, isConnected, reconnectAttempts, connectResult>>

\* the first quit() is answered: disconnect() resumes at line 175, then
\* gracefulShutdown at line 373 exits the process
QuitResolves ==
  /\ pc = "idle"
  /\ Running
  /\ awaiting > 0
  /\ awaiting' = awaiting - 1
  /\ subscriber' = NULL
  /\ isConnected' = FALSE
  /\ redis' = [redis EXCEPT !.status = "end"]
  /\ shutdown' = [shutdown EXCEPT !.exited = TRUE]
  /\ UNCHANGED <<heapvars, now, pc, args, ret, fault, endFaulty, msg, calls, sidevars,
                 reconnectAttempts, connectResult>>

\* the server has started on a connected bus; end() throws on some responses
InitShutdown ==
  /\ InitRegistry
  /\ Subscribed
  /\ InitEnv
  /\ endFaulty \in SUBSET Transports

NextShutdown ==
  \/ Running /\ \E c \in ClientNames, t \in Transports : RegisterCall(c, t)
  \/ RegisterEvict
  \/ RegisterConstruct
  \/ RegisterSet
  \/ Running /\ \E e \in EntryIds : OnSignal(e)
  \/ Running /\ \E e \in EntryIds, o \in Outcomes : OnHeartbeat(e, o)
  \/ Signal
  \/ ShutdownCloseAll
  \/ ShutdownDisconnect
  \/ QuitResolves

SpecShutdown == InitShutdown /\ [][NextShutdown]_vars

\* ---- the bus connection from start() to process.exit ----------------------------
\* getStatus(): the fields that are state; channel, host and port are config
getStatus == [connected |-> isConnected, reconnectAttempts |-> reconnectAttempts]

NextStatus ==
  \/ StartConnect
  \/ Running /\ BusConnect
  \/ Running /\ BusReady
  \/ Running /\ BusError
  \/ Running /\ BusClose
  \/ Running /\ BusRetry
  \/ Running /\ BusReconnect
  \/ Signal
  \/ ShutdownCloseAll
  \/ ShutdownDisconnect
  \/ QuitResolves

SpecStatus == Init /\ [][NextStatus]_vars

\* ---- several processes on one channel -------------------------------------------
\* the entry of process p a message text would be written to, NULL if none
PodTarget(p, raw) ==
  LET v == JSONparse(raw).value
  IN IF Truthy(v, "clientName") THEN get(pods[p], v.props["clientName"]) ELSE NULL

\* GET /events/:clientName served by process p, on a fresh response
PodRegister(p, clientName) ==
  /\ Len(pods[p].entries) < MaxPodEntries
  /\ pods' = [pods EXCEPT ![p] = register(@, clientName, 11 + Len(@.entries))]
  /\ UNCHANGED <<heapvars, now, pc, args, ret, fault, busvars,
                 endFaulty, shutdown, msg, calls, inbox, published>>

\* a 'close' / 'error' / 'finish' event of an entry of process p
PodSignal(p, e) ==
  /\ pods' = [pods EXCEPT ![p] = cleanup(@, e)]
  /\ UNCHANGED <<heapvars, now, pc, args, ret, fault, busvars,
                 endFaulty, shutdown, msg, calls, inbox, published>>

\* PUBLISH on the channel: Redis hands the text to every subscribed process
Publish(raw) ==
  /\ published < MaxPublished
  /\ published' = published + 1
  /\ inbox' = [p \in Pods |-> Append(inbox[p], raw)]
  /\ UNCHANGED <<heapvars, now, pc, args, ret, fault, busvars,
                 endFaulty, shutdown, msg, calls, pods>>

\* variant: the processes share one registry, the owner of the client writes
PodReceiveShared(p, outcome) ==
  /\ inbox[p] # << >>
  /\ \E q \in Pods :
       LET raw == Head(inbox[p])
           target == PodTarget(q, raw)
       IN /\ (target = NULL \/ ~pods[q].entries[target].isAlive) => outcome = "ok"
          /\ pods' = [pods EXCEPT ![q] = handleMessage(@, raw, outcome).h]
  /\ inbox' = [inbox EXCEPT ![p] = Tail(@)]
  /\ UNCHANGED <<heapvars, now, pc, args, ret, fault, busvars,
                 endFaulty, shutdown, msg, calls, published>>

\* the 'message' listener of process p runs on the next text of the channel
PodReceive(p, outcome) ==
  /\ inbox[p] # << >>
  /\ LET raw == Head(inbox[p])
         target == PodTarget(p, raw)
     IN /\ (target = NULL \/ ~pods[p].entries[target].isAlive) => outcome = "ok"
        /\ pods' = [pods EXCEPT ![p] = handleMessage(@, raw, outcome).h]
  /\ inbox' = [inbox EXCEPT ![p] = Tail(@)]
  /\ UNCHANGED <<heapvars, now, pc, args, ret, fault, busvars,
                 endFaulty, shutdown, msg, calls, published>>

NextPods ==
  \/ \E p \in Pods, c \in ClientNames : PodRegister(p, c)
  \/ \E p \in Pods : \E e \in 1..Len(pods[p].entries) : PodSignal(p, e)
  \/ \E c \in ClientNames : Publish(Stringify(c))
  \/ \E p \in Pods, o \in Outcomes : PodReceive(p, o)

SpecPods == Init /\ [][NextPods]_vars

\* ---- registration with responses that may be unusable -------------------------
NextConstruct ==
  \/ \E c \in ClientNames, t \in Transports : RegisterCall(c, t)
  \/ RegisterEvict
  \/ RegisterConstruct
  \/ RegisterConstructThrows
  \/ RegisterSet
  \/ \E e \in EntryIds : OnSignal(e)
  \/ \E e \in EntryIds, o \in Outcomes : OnHeartbeat(e, o)

SpecConstruct == Init /\ [][NextConstruct]_vars

\* ---- the HTTP endpoints ---------------------------------------------------------
\* a name is the sequence of its characters
Letters ==
  {"a", "b", "c", "d", "e", "f", "g", "h", "i", "j", "k", "l", "m",
   "n", "o", "p", "q", "r", "s", "t", "u", "v", "w", "x", "y", "z",
   "A", "B", "C", "D", "E", "F", "G", "H", "I", "J", "K", "L", "M",
   "N", "O", "P", "Q", "R", "S", "T", "U", "V", "W", "X", "Y", "Z"}
Digits == {"0", "1", "2", "3", "4", "5", "6", "7", "8", "9"}

\* /^[a-zA-Z0-9_-]+$/.test(clientName)
NameFormat(clientName) ==
  /\ Len(clientName) >= 1
  /\ \A i \in 1..Len(clientName) : clientName[i] \in Letters \cup Digits \cup {"_", "-"}

\* what :clientName can capture: one non-empty path segment, decoded
PathNames == {<<"A">>, <<"x", "-", "1">>, <<"a", ".", "b">>}
\* the clientName of a JSON body; << >> stands for a missing or empty one
BodyNames == PathNames \cup {<< >>}

\* POST /register: answers 400 or 200, stores nothing
PostRegister(clientName) ==
  /\ pc = "idle"
  /\ ret' = [op |-> "postRegister", entry |-> NULL,
             value |-> (clientName # << >> /\ NameFormat(clientName))]
  /\ UNCHANGED <<heapvars, now, pc, args, fault, busvars, envvars>>

\* res.write(chunk) on a response that is not registered yet
resWrite(h, response, kind, outcome) ==
  [h EXCEPT !.written[response] =
              Append(@, [kind |-> kind, ok |-> (outcome = "ok"), data |-> << >>])]

\* GET /events/:clientName: the two initial writes, then register()
GetEventsByName(clientName, response, outcome) ==
  /\ pc = "idle"
  /\ Len(entries) < MaxEntries
  /\ response \notin UsedTransports
  /\ \A t \in Transports \ UsedTransports : response <= t
  /\ written[response] = << >>
  /\ LET h1 == resWrite(Heap, response, "comment", outcome)
         h2 == resWrite(h1, response, "connected", outcome)
     IN IF outcome = "throw"
        THEN Commit(h1)
        ELSE Commit(register(h2, clientName, response))
  /\ ret' = [op |-> "getEvents", entry |-> NULL, value |-> (outcome # "throw")]
  /\ UNCHANGED <<now, pc, args, busvars, envvars>>

NextHttp ==
  \/ \E c \in BodyNames : PostRegister(c)
  \/ \E c \in PathNames, t \in Transports, o \in Outcomes : GetEventsByName(c, t, o)
  \/ \E e \in EntryIds : OnSignal(e)

SpecHttp == Init /\ [][NextHttp]_vars

\* ---- vocabulary of the properties --------------------------------------------
Alive(e) == entries[e].isAlive
NameOf(e) == entries[e].clientName
TransportOf(e) == entries[e].response
SameName(c) == {e \in EntryIds : NameOf(e) = c}
Registered(e) == NameOf(e) \in DOMAIN connections /\ connections[NameOf(e)] = e
LastWrite(e) == written[TransportOf(e)][Len(written[TransportOf(e)])]
\* this step made one more write() call on e's response, of this kind
WroteNow(e, kind) ==
  /\ Len(written'[TransportOf(e)]) = Len(written[TransportOf(e)]) + 1
  /\ written'[TransportOf(e)][Len(written'[TransportOf(e)])].kind = kind
WriteOkNow(e) == written'[TransportOf(e)][Len(written'[TransportOf(e)])].ok

\* C1: in every reachable state, statement boundaries inside register()
\* included, each clientName has at most one Map entry and at most one Alive
\* ConnectionEntry; an evicted entry and its replacement are never both Alive.
C1_AtMostOneAlivePerName ==
  /\ \A c \in DOMAIN connections : connections[c] \in EntryIds
  /\ \A e1 \in EntryIds, e2 \in EntryIds :
       (Alive(e1) /\ Alive(e2) /\ NameOf(e1) = NameOf(e2)) => e1 = e2

C1_Witness ==
  /\ pc = "set"
  /\ args.oldConnection # NULL
  /\ args.entry # NULL
  /\ NameOf(args.oldConnection) = NameOf(args.entry)
  /\ ~Alive(args.oldConnection)
  /\ Alive(args.entry)

\* C2: when register(clientName, response) has returned, get(clientName) is
\* the entry it created, that entry wraps the response just supplied and is
\* Alive; and for every name, as long as the most recently registered entry
\* has not been closed, it is the one the Map holds and every earlier entry
\* of that name is Closed.
C2_LatestRegistrationWins ==
  pc = "idle" =>
    /\ ret.op = "register" =>
         /\ ret.value = TRUE
         /\ ret.entry \in EntryIds
         /\ get(Heap, args.clientName) = ret.entry
         /\ count(Heap) = Cardinality({NameOf(e) : e \in {x \in EntryIds : Alive(x)}})
         /\ NameOf(ret.entry) = args.clientName
         /\ TransportOf(ret.entry) = args.response
         /\ Alive(ret.entry)
         /\ \A e \in SameName(args.clientName) \ {ret.entry} : ~Alive(e)
    /\ \A c \in ClientNames :
         SameName(c) # {} =>
           LET last == CHOOSE e \in SameName(c) : \A x \in SameName(c) : x <= e
           IN /\ \A e \in SameName(c) \ {last} : ~Alive(e)
              /\ Alive(last) => (has(Heap, c) /\ get(Heap, c) = last)

C2_Witness ==
  /\ pc = "idle"
  /\ ret.op = "register"
  /\ Len(entries) = 2
  /\ \A e \in 1..2 : NameOf(e) = "A"
  /\ ret.entry = 2
  /\ get(Heap, "A") = 2
  /\ count(Heap) = 1
  /\ TransportOf(2) = args.response
  /\ TransportOf(1) # TransportOf(2)
  /\ ~Alive(1)

\* C3: register() on an existing name closes the old entry (timer cancelled,
\* response ended) and removes it from the Map before the new entry is
\* constructed and stored: the name is absent from the Map between eviction
\* and set(), and the Map never holds an entry while another entry of the
\* same name is still Alive.
C3_EvictBeforeVisible ==
  /\ (pc \in {"construct", "set"} /\ args.oldConnection # NULL) =>
       /\ ~Alive(args.oldConnection)
       /\ entries[args.oldConnection].heartbeatInterval = NULL
       /\ args.oldConnection \notin timers
       /\ endCalls[TransportOf(args.oldConnection)] >= 1
  /\ pc \in {"construct", "set"} => ~has(Heap, args.clientName)
  /\ \A c \in DOMAIN connections :
       \A e \in SameName(c) \ {connections[c]} : ~Alive(e)

C3_Witness ==
  /\ pc = "construct"
  /\ args.oldConnection # NULL
  /\ ~has(Heap, args.clientName)
  /\ removals[args.oldConnection] = 1

C5_SendOnClosedIsNoOp ==
  [][\A e \in EntryIds :
       (~Alive(e) /\ \E o \in Outcomes : CallSendEvent(e, o)) =>
          (ret'.op = "sendEvent" /\ ret'.value = FALSE /\ UNCHANGED heapvars)]_vars

\* sendEvent returned false although no write() was ever attempted
C5_Witness ==
  /\ ret.op = "sendEvent"
  /\ ret.value = FALSE
  /\ entries # << >>
  /\ \A e \in EntryIds : ~Alive(e)
  /\ \A t \in Transports : written[t] = << >>

\* C6: close() is idempotent: a close() call leaves the entry Closed, its
\* timer cancelled and the entry out of the Map, and a close() call on an
\* entry that is already Closed changes nothing at all (no clearInterval, no
\* response.end(), no Map deletion).
C6_CloseIdempotent ==
  [][\A e \in EntryIds :
       CallClose(e) =>
          /\ ~entries'[e].isAlive
          /\ e \notin timers'
          /\ ~(NameOf(e) \in DOMAIN connections' /\ connections'[NameOf(e)] = e)
          /\ ~Alive(e) => UNCHANGED heapvars]_vars

\* the last call was a close(), and it was not on the replacement
C6_Witness ==
  /\ ret.op = "close"
  /\ Len(entries) = 2
  /\ NameOf(1) = NameOf(2)
  /\ ~Alive(1)
  /\ Alive(2)
  /\ Registered(2)

\* C7: whichever triggers fire on an entry and in whatever order, the close
\* effects happen exactly once: an Alive entry has had none of them, a Closed
\* entry has had exactly one clearInterval, one response.end() and one
\* removal from the Map.
C7_CloseEffectsOnce ==
  \A e \in EntryIds :
    IF Alive(e)
    THEN /\ endCalls[TransportOf(e)] = 0
         /\ clearCalls[e] = 0
         /\ removals[e] = 0
    ELSE /\ endCalls[TransportOf(e)] = 1
         /\ clearCalls[e] = 1
         /\ removals[e] = 1

\* a write failure closed the only entry, then a transport signal arrived
C7_Witness ==
  /\ ret.op = "signal"
  /\ Len(entries) = 1
  /\ ~Alive(1)
  /\ written[TransportOf(1)] # << >>
  /\ ~LastWrite(1).ok
  /\ endCalls[TransportOf(1)] = 1

\* C8: a sendEvent() on an Alive entry whose write() returns false or throws
\* returns false and leaves the entry Closed, its timer cancelled, its
\* response ended, eventCount as it was and its name absent from the Map.
C8_SendFailureCloses ==
  [][\A e \in EntryIds :
       (Alive(e) /\ WroteNow(e, "event") /\ ~WriteOkNow(e)) =>
          /\ ret'.op = "sendEvent" /\ ret'.value = FALSE
          /\ ~entries'[e].isAlive
          /\ ~getStats(Heap, e).isAlive'
          /\ entries'[e].heartbeatInterval = NULL
          /\ e \notin timers'
          /\ endCalls'[TransportOf(e)] = endCalls[TransportOf(e)] + 1
          /\ entries'[e].eventCount = entries[e].eventCount
          /\ NameOf(e) \notin DOMAIN connections']_vars

C8_Witness ==
  /\ ret.op = "sendEvent"
  /\ ret.value = FALSE
  /\ \E e \in EntryIds :
       /\ ~Alive(e)
       /\ written[TransportOf(e)] # << >>
       /\ LastWrite(e).kind = "event" /\ ~LastWrite(e).ok
       /\ get(Heap, NameOf(e)) = NULL
       /\ endCalls[TransportOf(e)] = 1

\* C9: a heartbeat tick on an Alive entry whose write() returns false or
\* throws closes the entry and removes it from the Map in that same tick and
\* disarms its interval, so a failed write is always the last write() call
\* ever made on that response.
C9_HeartbeatFailureCloses ==
  /\ [][\A e \in EntryIds :
          (Alive(e) /\ WroteNow(e, "heartbeat") /\ ~WriteOkNow(e)) =>
             /\ ~entries'[e].isAlive
             /\ e \notin timers'
             /\ NameOf(e) \notin DOMAIN connections']_vars
  /\ [](\A t \in Transports : \A i \in 1..(Len(written[t]) - 1) : written[t][i].ok)

C9_Witness ==
  /\ ret.op = "heartbeat"
  /\ \E e \in EntryIds :
       /\ ~Alive(e)
       /\ written[TransportOf(e)] # << >>
       /\ LastWrite(e).kind = "heartbeat" /\ ~LastWrite(e).ok
       /\ ~has(Heap, NameOf(e))
       /\ e \notin timers

\* C10: a sendEvent() on an Alive entry whose write() succeeds returns true,
\* adds exactly 1 to eventCount, sets lastActivity to the current time and
\* leaves the entry Alive and registered; eventCount never decreases.
C10_SendSuccessCounts ==
  [][\A e \in EntryIds :
       /\ entries'[e].eventCount >= entries[e].eventCount
       /\ (Alive(e) /\ WroteNow(e, "event") /\ WriteOkNow(e)) =>
            /\ ret'.op = "sendEvent" /\ ret'.value = TRUE
            /\ entries'[e].eventCount = entries[e].eventCount + 1
            /\ entries'[e].lastActivity = now
            /\ entries'[e].isAlive
            /\ e \in timers'
            /\ NameOf(e) \in DOMAIN connections' /\ connections'[NameOf(e)] = e]_vars

\* an event was delivered later than the entry was constructed
C10_Witness ==
  /\ ret.op = "sendEvent"
  /\ ret.value = TRUE
  /\ now > 0
  /\ \E e \in EntryIds :
       /\ entries[e].eventCount = 1
       /\ entries[e].lastActivity = now
       /\ Alive(e)
       /\ Registered(e)

\* this step ran the 'message' listener on the text raw (every handler that
\* starts at pc = "idle" sets ret, so ret'.op names the handler of the step)
Handled(raw) == pc = "idle" /\ ret'.op = "message" /\ msg'.raw = raw

\* C11: a message whose clientName has no entry in the local registry raises
\* no fault, calls no sendEvent, writes nothing, and leaves the Map (its keys
\* and count) and every entry's state exactly as they were.
C11_AbsentTargetIgnored ==
  [][\A n \in TargetNames \ {""} :
       (Handled(Stringify(n)) /\ ~has(Heap, n))
       => /\ UNCHANGED heapvars
          /\ count(Heap)' = count(Heap)
          /\ fault' = FALSE
          /\ msg'.sendEventCalls = 0
          /\ msg'.log = "ignored"]_vars

C11_Witness ==
  /\ pc = "idle"
  /\ ret.op = "message"
  /\ msg.raw = Stringify("A")
  /\ msg.log = "ignored"
  /\ ~has(Heap, "A")
  /\ \E e \in EntryIds : NameOf(e) = "A" /\ ~Alive(e)
  /\ \E e \in EntryIds : NameOf(e) = "B" /\ Alive(e) /\ Registered(e)
                         /\ written[TransportOf(e)] = << >>

\* C12: a message text that is not JSON, or whose parsed value has no truthy
\* clientName, is dropped: no exception leaves handleMessage, sendEvent is not
\* called, nothing is written, and the registry and its entries are unchanged.
C12_MalformedDropped ==
  [][\A raw \in RawMessages :
       (Handled(raw)
        /\ (JSONparse(raw).threw \/ ~Truthy(JSONparse(raw).value, "clientName")))
       => /\ UNCHANGED heapvars
          /\ fault' = FALSE
          /\ msg'.sendEventCalls = 0
          /\ msg'.log \in {"error", "invalid"}]_vars

C12_Witness ==
  /\ pc = "idle"
  /\ ret.op = "message"
  /\ msg.raw = <<"oops">>
  /\ JSONparse(msg.raw).threw
  /\ msg.log = "error"
  /\ ~fault
  /\ \E e \in EntryIds : Alive(e) /\ Registered(e) /\ written[TransportOf(e)] = << >>

\* number of event writes recorded in the transport logs w
RECURSIVE EventsIn(_, _)
EventsIn(w, ts) ==
  IF ts = {} THEN 0
  ELSE LET t == CHOOSE x \in ts : TRUE
       IN Cardinality({i \in DOMAIN w[t] : w[t][i].kind = "event"}) + EventsIn(w, ts \ {t})

\* C13: delivery is at most once: handling one message calls sendEvent at most
\* once and makes at most one event write; no other step, a later registration
\* of a replacement entry included, writes an event, so a delivery that failed
\* is never retried or re-sent.
C13_AtMostOnce ==
  [][LET before == EventsIn(written, Transports)
         after == EventsIn(written', Transports)
     IN /\ after \in {before, before + 1}
        /\ after = before + 1 =>
             (pc = "idle" /\ ret'.op = "message" /\ msg'.sendEventCalls = 1)
        /\ (pc = "idle" /\ ret'.op = "message") => msg'.sendEventCalls <= 1]_vars

C13_Witness ==
  /\ pc = "idle"
  /\ ret.op = "register"
  /\ msg.raw = Stringify("A")
  /\ msg.log = "failed"
  /\ msg.sendEventCalls = 1
  /\ Len(entries) = 2
  /\ NameOf(1) = "A" /\ ~Alive(1)
  /\ Len(written[TransportOf(1)]) = 1
  /\ LastWrite(1).kind = "event" /\ ~LastWrite(1).ok
  /\ NameOf(2) = "A" /\ Alive(2) /\ Registered(2)
  /\ written[TransportOf(2)] = << >>

\* C14: the listeners of the bus client ('connect', 'ready', 'error', 'close',
\* 'reconnecting', and the end of retrying) change router state only: on every
\* step that changes it the Map, the entries, their timers and transports stay
\* as they were, and an entry stops being Alive only in a step of one of its
\* own close triggers (transport signal, heartbeat or write failure, eviction)
\* or of closeAll().
C14_BusEventsKeepRegistry ==
  [][/\ busvars' # busvars =>
          /\ UNCHANGED heapvars
          /\ count(Heap)' = count(Heap)
          /\ fault' = FALSE
     /\ \A e \in EntryIds :
          (Alive(e) /\ ~Alive(e)') =>
            \/ pc = "evict" /\ args.clientName = NameOf(e)
            \/ pc = "idle" /\ ret'.op \in {"signal", "heartbeat", "message", "closeAll"}]_vars

C14_Witness ==
  /\ redis.status = "end"
  /\ redis.retryAttempts = maxReconnectAttempts + 1
  /\ connectResult = "true"
  /\ isConnected = FALSE
  /\ \E e \in EntryIds : Alive(e) /\ Registered(e) /\ e \in timers

\* C15: for an attempt number n >= 1 the reconnect policy returns the delay
\* min(n * 100, 2000) when n <= 10 and the stop value (no number) when n > 10;
\* over the attempts that get a delay, the delay never decreases as n grows
\* and never exceeds 2000.
C15_RetryPolicy ==
  /\ \A i \in DOMAIN calls :
       LET n == calls[i].times
           r == calls[i].result
       IN /\ n <= 10 => (r.isNumber /\ r.delay = IF n * 100 <= 2000 THEN n * 100 ELSE 2000)
          /\ n > 10 => ~r.isNumber
          /\ r.isNumber => r.delay <= 2000
  /\ \A i \in DOMAIN calls, j \in DOMAIN calls :
       (calls[i].result.isNumber /\ calls[j].result.isNumber
        /\ calls[i].times <= calls[j].times)
       => calls[i].result.delay <= calls[j].result.delay

C15_Witness ==
  /\ Len(calls) = 2
  /\ calls[1].times = 10
  /\ calls[1].result = [isNumber |-> TRUE, delay |-> 1000]
  /\ calls[2].times = 11
  /\ calls[2].result.isNumber = FALSE

\* C16: while the bus is unreachable the client reconnects at most 10 times
\* and then ends for good; once ended, isConnected (what getStatus() reports
\* as connected) is and stays false, connect() has settled (with false when
\* the bus was never reached) and no exception has escaped; and if the bus is
\* never reached again, the client does end.
C16_RetriesExhausted ==
  /\ [](/\ reconnectAttempts <= 10
        /\ redis.retryAttempts <= 11
        /\ redis.status = "reconnecting" => redis.retryAttempts <= 10
        /\ connectResult = "false" => redis.status = "end"
        /\ redis.status = "end" =>
             /\ redis.retryAttempts = 11
             /\ isConnected = FALSE
             /\ connectResult \in {"true", "false"}
             /\ fault = FALSE)
  /\ [][redis.status = "end" =>
          /\ redis'.status = "end"
          /\ isConnected' = FALSE
          /\ UNCHANGED <<reconnectAttempts, connectResult>>]_vars
  /\ (<>[](redis.status \notin {"connect", "ready"})) =>
       <>[](redis.status = "end" /\ isConnected = FALSE /\ connectResult # "pending")

C16_Witness ==
  /\ redis.status = "end"
  /\ redis.retryAttempts = 11
  /\ reconnectAttempts = 10
  /\ connectResult = "false"
  /\ isConnected = FALSE
  /\ subscriber # NULL

\* C17: when closeAll() returns, every entry that was in the Map when it was
\* called is Closed, its interval is cancelled and end() was called on its
\* response, and count() is 0; this also holds when end() throws on some of
\* the responses, and no exception leaves closeAll().
C17_CloseAllSweeps ==
  [][(pc = "closeAll" /\ pc' = "disconnect") =>
       /\ \A e \in EntryIds :
            Registered(e) =>
              /\ entries'[e].isAlive = FALSE
              /\ entries'[e].heartbeatInterval = NULL
              /\ e \notin timers'
              /\ endCalls'[TransportOf(e)] = endCalls[TransportOf(e)] + 1
       /\ timers' = {}
       /\ count(Heap)' = 0
       /\ fault' = FALSE]_vars

C17_Witness ==
  /\ pc = "disconnect"
  /\ Len(entries) = 2
  /\ NameOf(1) # NameOf(2)
  /\ \A e \in 1..2 : ~Alive(e) /\ removals[e] = 1 /\ clearCalls[e] = 1
                     /\ endCalls[TransportOf(e)] = 1
  /\ TransportOf(1) \in endFaulty
  /\ TransportOf(2) \notin endFaulty
  /\ shutdown.atSignal = 2
  /\ shutdown.signals = 1
  /\ count(Heap) = 0
  /\ ~fault

\* C18: however many times disconnect() is called, one after the other or
\* again while an earlier call still awaits quit() (a second shutdown signal),
\* quit() is issued on the bus client exactly once, no call raises a fault,
\* and when the process exits isConnected is false.
C18_QuitIssuedOnce ==
  /\ redis.quits <= 1
  /\ awaiting <= 1
  /\ fault = FALSE
  /\ shutdown.exited => (isConnected = FALSE /\ redis.quits = 1)

\* C19: in gracefulShutdown closeAll() has returned, with every entry Closed
\* and the Map empty, before disconnect() issues quit(); so once the bus
\* client has been told to quit, no entry registered before the first
\* shutdown signal is Alive.
C19_CloseAllBeforeDisconnect ==
  /\ [](redis.quits > 0 => \A e \in 1..shutdown.atSignal : ~Alive(e))
  /\ [][redis'.quits > redis.quits =>
          /\ pc = "disconnect"
          /\ count(Heap) = 0
          /\ timers = {}
          /\ \A e \in EntryIds : ~Alive(e)]_vars

C19_Witness ==
  /\ pc = "idle"
  /\ redis.quits = 1
  /\ awaiting = 1
  /\ Running
  /\ shutdown.atSignal = 1
  /\ ~Alive(1)
  /\ endCalls[TransportOf(1)] = 1
  /\ Len(entries) = 2
  /\ Alive(2)

\* C20: a step that closes the entry of one clientName, by any of its close
\* triggers, leaves every entry of a different clientName as it was: its
\* fields (isAlive, eventCount, lastActivity, interval handle), its armed
\* timer, its transport log and end() count, and its place in the Map.
C20_FaultIsLocal ==
  [][\A e \in EntryIds :
       (Alive(e) /\ ~Alive(e)' /\ ~CallCloseAll) =>
         \A o \in EntryIds :
           NameOf(o) # NameOf(e) =>
             /\ entries'[o] = entries[o]
             /\ (o \in timers') = (o \in timers)
             /\ clearCalls'[o] = clearCalls[o]
             /\ removals'[o] = removals[o]
             /\ written'[TransportOf(o)] = written[TransportOf(o)]
             /\ endCalls'[TransportOf(o)] = endCalls[TransportOf(o)]
             /\ Registered(o)' = Registered(o)]_vars

C20_Witness ==
  /\ pc = "idle"
  /\ ret.op = "heartbeat"
  /\ Len(entries) = 2
  /\ NameOf(1) = "A" /\ NameOf(2) = "B"
  /\ ~Alive(1)
  /\ Len(written[TransportOf(1)]) = 1
  /\ LastWrite(1).kind = "heartbeat" /\ ~LastWrite(1).ok
  /\ Alive(2) /\ Registered(2) /\ 2 \in timers
  /\ endCalls[TransportOf(2)] = 0
  /\ count(Heap) = 1

\* C21: every process subscribed to the channel gets every published text;
\* the process that handles one writes it to a transport exactly when its
\* own registry holds an Alive entry for the clientName at that moment, and
\* otherwise changes nothing of its own; no step of one process (a message,
\* a registration, a close) changes the registry of another process.
C21_PodsOnlyShareTheBus ==
  /\ [](\A p \in Pods : Len(inbox[p]) <= published)
  /\ [][/\ published' # published =>
             \A p \in Pods : inbox'[p] = Append(inbox[p], inbox'[p][Len(inbox'[p])])
        /\ \A p \in Pods : \A q \in Pods \ {p} :
             pods'[p] # pods[p] => pods'[q] = pods[q]
        /\ \A p \in Pods :
             inbox'[p] # inbox[p] /\ published' = published =>
               LET target == PodTarget(p, Head(inbox[p]))
                   owns == target # NULL /\ pods[p].entries[target].isAlive
                   before == EventsIn(pods[p].written, Transports)
                   after == EventsIn(pods'[p].written, Transports)
               IN /\ owns => after = before + 1
                  /\ ~owns => pods'[p] = pods[p]]_vars

C21_Witness ==
  /\ published = 1
  /\ \A p \in Pods : inbox[p] = << >>
  /\ get(pods["pod-1"], "A") # NULL
  /\ ~has(pods["pod-2"], "A")
  /\ has(pods["pod-2"], "B")
  /\ EventsIn(pods["pod-1"].written, Transports) = 1
  /\ pods["pod-2"].written = [t \in Transports |-> << >>]
  /\ pods["pod-2"].entries[1].isAlive
  /\ pods["pod-2"].entries[1].eventCount = 0

\* C22: every clientName under which a connection is registered has the
\* format POST /register enforces: non-empty, and only letters, digits,
\* underscores and hyphens.
C22_RegisteredNamesValidated ==
  \A e \in EntryIds : NameFormat(entries[e].clientName)

\* C23: an event write caused by a bus message for clientName X goes to the
\* response of the entry the Map holds under X when the message is handled,
\* which is Alive and the most recently registered entry of that name: never
\* to a response registered under another name, nor to one evicted or closed.
C23_WriteGoesToCurrentEntry ==
  [][\A n \in TargetNames \ {""} : \A t \in Transports :
       (Handled(Stringify(n)) /\ written'[t] # written[t])
       => /\ has(Heap, n)
          /\ LET e == get(Heap, n)
             IN /\ TransportOf(e) = t
                /\ NameOf(e) = n
                /\ Alive(e)
                /\ \A o \in SameName(n) : o <= e
                /\ WroteNow(e, "event")]_vars

C23_Witness ==
  /\ pc = "idle"
  /\ ret.op = "message"
  /\ msg.raw = Stringify("A")
  /\ msg.log = "sent"
  /\ Len(entries) = 2
  /\ NameOf(1) = "A" /\ ~Alive(1)
  /\ NameOf(2) = "A" /\ Alive(2) /\ Registered(2)
  /\ written[TransportOf(1)] = << >>
  /\ Len(written[TransportOf(2)]) = 1
  /\ LastWrite(2).kind = "event" /\ LastWrite(2).ok

\* C24: when register() has evicted an entry and the construction of the new
\* one throws, the evicted entry stays Closed, end() has been called on its
\* response, its timer is cancelled, and the Map holds nothing under the
\* clientName: the old connection is not put back.
C24_FailedConstructionKeepsEviction ==
  (pc = "idle" /\ ret.op = "registerThrew" /\ args.oldConnection # NULL)
  => /\ fault
     /\ ~Alive(args.oldConnection)
     /\ endCalls[TransportOf(args.oldConnection)] = 1
     /\ args.oldConnection \notin timers
     /\ ~has(Heap, args.clientName)
     /\ \A e \in SameName(args.clientName) : ~Alive(e)

C24_Witness ==
  /\ pc = "idle"
  /\ ret.op = "registerThrew"
  /\ args.oldConnection = 1
  /\ args.clientName = "A"
  /\ Len(entries) = 1
  /\ count(Heap) = 0

\* C25: when response.end() throws inside close(), nothing propagates out of
\* close(): in the same step the entry ends Closed, its interval is cleared,
\* and close() has removed it from the Map.
C25_EndFaultContained ==
  [][\A e \in EntryIds :
       (Alive(e) /\ ~entries'[e].isAlive /\ TransportOf(e) \in endFaulty)
       => /\ fault' = FALSE
          /\ endCalls'[TransportOf(e)] = endCalls[TransportOf(e)] + 1
          /\ e \notin timers'
          /\ entries'[e].heartbeatInterval = NULL
          /\ clearCalls'[e] = clearCalls[e] + 1
          /\ removals'[e] = removals[e] + 1
          /\ ~(NameOf(e) \in DOMAIN connections' /\ connections'[NameOf(e)] = e)]_vars

C25_Witness ==
  /\ pc = "idle"
  /\ ret.op = "signal"
  /\ Len(entries) = 1
  /\ TransportOf(1) \in endFaulty
  /\ ~Alive(1)
  /\ endCalls[TransportOf(1)] = 1
  /\ removals[1] = 1
  /\ timers = {}
  /\ count(Heap) = 0
  /\ fault = FALSE

\* C26: on every response the event records are in the order in which their
\* bus messages were received and each belongs to the clientName of the
\* entry; write() calls only append, so heartbeat records may sit between
\* events but never reorder them; and no record is written to the response
\* of an entry that is Closed.
C26_EventsInReceiptOrder ==
  /\ [](\A e \in EntryIds :
          LET w == written[TransportOf(e)]
          IN \A i \in DOMAIN w :
               w[i].kind = "event"
               => /\ w[i].data["clientName"] = NameOf(e)
                  /\ w[i].data["seq"] \in 1..published
                  /\ \A j \in DOMAIN w :
                       (i < j /\ w[j].kind = "event")
                       => w[i].data["seq"] < w[j].data["seq"])
  /\ [][\A t \in Transports :
          written'[t] # written[t]
          => /\ Len(written'[t]) = Len(written[t]) + 1
             /\ SubSeq(written'[t], 1, Len(written[t])) = written[t]
             /\ \E e \in EntryIds : TransportOf(e) = t /\ Alive(e)]_vars

C26_Witness ==
  /\ pc = "idle"
  /\ published = 2
  /\ Len(entries) = 1
  /\ Alive(1)
  /\ Len(written[TransportOf(1)]) = 3
  /\ written[TransportOf(1)][1].kind = "event"
  /\ written[TransportOf(1)][1].data["seq"] = 1
  /\ written[TransportOf(1)][2].kind = "heartbeat"
  /\ written[TransportOf(1)][3].kind = "event"
  /\ written[TransportOf(1)][3].data["seq"] = 2

\* C27: remove(clientName) on any reachable registry: if the key is present
\* it is deleted and true is returned; if absent false is returned and
\* nothing changes; a second call returns false and leaves the same registry;
\* the mapping of every other key and every entry stay as they were.
C27_RemoveContract ==
  \A c \in TargetNames :
    LET r == remove(Heap, c)
        again == remove(r.h, c)
    IN /\ r.existed = has(Heap, c)
       /\ ~has(r.h, c)
       /\ ~has(Heap, c) => r.h = Heap
       /\ again.existed = FALSE
       /\ again.h = r.h
       /\ r.h.entries = entries
       /\ r.h.timers = timers
       /\ \A d \in TargetNames \ {c} :
            /\ has(r.h, d) = has(Heap, d)
            /\ get(r.h, d) = get(Heap, d)

C27_Witness ==
  /\ pc = "idle"
  /\ Len(entries) = 2
  /\ NameOf(1) = "A" /\ ~Alive(1) /\ removals[1] = 1
  /\ NameOf(2) = "B" /\ Registered(2)
  /\ ~remove(Heap, "A").existed
  /\ remove(Heap, "B").existed
  /\ count(remove(Heap, "B").h) = 0
  /\ count(remove(Heap, "A").h) = 1

\* C28: at every handler boundary an entry is in the Map exactly when it is
\* Alive, and every key maps to an entry of that clientName; so getAll()
\* reports no entry with isAlive false, one record per Alive entry, and
\* count() is the number of Alive entries.
C28_MapHoldsExactlyTheAlive ==
  pc = "idle"
  => /\ \A e \in EntryIds : Registered(e) <=> Alive(e)
     /\ \A c \in DOMAIN connections :
          connections[c] \in EntryIds /\ NameOf(connections[c]) = c
     /\ \A i \in DOMAIN getAll(Heap) : getAll(Heap)[i].isAlive
     /\ Len(getAll(Heap)) = Cardinality({e \in EntryIds : Alive(e)})
     /\ count(Heap) = Cardinality({e \in EntryIds : Alive(e)})

C28_Witness ==
  /\ pc = "idle"
  /\ ret.op = "signal"
  /\ Len(entries) = 2
  /\ ~Alive(1) /\ ~Registered(1)
  /\ Alive(2) /\ Registered(2)
  /\ NameOf(1) # NameOf(2)
  /\ count(Heap) = 1
  /\ Len(getAll(Heap)) = 1
  /\ getAll(Heap)[1].clientName = NameOf(2)

\* C29: in every state an entry's interval is armed exactly when the entry is
\* Alive: whichever way it was closed (signal, heartbeat failure, write
\* failure, eviction, closeAll) its interval is cleared and its handle reset,
\* and a tick of a Closed entry's callback would write nothing.
C29_TimerArmedIffAlive ==
  \A e \in EntryIds :
    /\ e \in timers <=> Alive(e)
    /\ entries[e].heartbeatInterval # NULL <=> Alive(e)
    /\ ~Alive(e) => /\ clearCalls[e] = 1
                    /\ \A o \in Outcomes : heartbeat(Heap, e, o) = Heap

C29_Witness ==
  /\ pc = "idle"
  /\ Len(entries) = 2
  /\ ~Alive(1)
  /\ Len(written[TransportOf(1)]) = 1
  /\ LastWrite(1).kind = "heartbeat" /\ ~LastWrite(1).ok
  /\ clearCalls[1] = 1
  /\ Alive(2)
  /\ timers = {2}

\* C30: a 'close', 'error' or 'finish' signal from the response of an entry
\* that is already Closed (evicted or closed before) changes nothing: an
\* entry registered since under the same clientName stays Alive and stays the
\* value of its key.
C30_StaleSignalSparesReplacement ==
  [][\A e \in EntryIds :
       (OnSignal(e) /\ ~Alive(e))
       => /\ UNCHANGED heapvars
          /\ \A r \in SameName(NameOf(e)) \ {e} :
               (Alive(r) /\ Registered(r))
               => /\ entries'[r].isAlive
                  /\ r \in timers'
                  /\ NameOf(r) \in DOMAIN connections'
                  /\ connections'[NameOf(r)] = r]_vars

C30_Witness ==
  /\ pc = "idle"
  /\ ret.op = "signal"
  /\ Len(entries) = 2
  /\ NameOf(1) = "B" /\ NameOf(2) = "B"
  /\ ~Alive(1)
  /\ endCalls[TransportOf(1)] = 1
  /\ Alive(2) /\ Registered(2)
  /\ endCalls[TransportOf(2)] = 0
  /\ 2 \in timers

\* the event write() calls on e's response that succeeded
EventsOk(e) ==
  Cardinality({i \in DOMAIN written[TransportOf(e)] :
                 /\ written[TransportOf(e)][i].kind = "event"
                 /\ written[TransportOf(e)][i].ok})

\* C31: a heartbeat whose write() succeeds leaves the entry as it was
\* (eventCount, lastActivity, Alive) and registered; eventCount grows by one
\* exactly in a sendEvent() call that returns true, so it always equals the
\* number of such calls on the entry.
C31_HeartbeatLeavesCounters ==
  /\ [](\A e \in EntryIds : entries[e].eventCount = EventsOk(e))
  /\ [][\A e \in EntryIds :
          /\ (Alive(e) /\ WroteNow(e, "heartbeat") /\ WriteOkNow(e))
             => /\ entries'[e] = entries[e]
                /\ e \in timers'
                /\ NameOf(e) \in DOMAIN connections' /\ connections'[NameOf(e)] = e
          /\ entries'[e].eventCount # entries[e].eventCount
             => /\ ret'.op = "sendEvent" /\ ret'.value = TRUE
                /\ entries'[e].eventCount = entries[e].eventCount + 1]_vars

C31_Witness ==
  /\ pc = "idle"
  /\ ret.op = "heartbeat"
  /\ now = 1
  /\ Len(entries) = 1
  /\ Alive(1) /\ Registered(1)
  /\ Len(written[TransportOf(1)]) = 2
  /\ written[TransportOf(1)][1].kind = "event" /\ written[TransportOf(1)][1].ok
  /\ LastWrite(1).kind = "heartbeat" /\ LastWrite(1).ok
  /\ entries[1].eventCount = 1
  /\ entries[1].lastActivity = 0

\* C32: with the cap of 10 attempts the ceiling of 2000 ms is never reached:
\* every delay the reconnect policy returns is at most 1000 ms, returned for
\* attempt 10, and an attempt that would compute 2000 ms (20 or later) gets
\* the stop value.
C32_DelayAtMostOneSecond ==
  \A i \in DOMAIN calls :
    LET n == calls[i].times
        r == calls[i].result
    IN /\ r.isNumber => (n <= maxReconnectAttempts /\ r.delay <= 1000)
       /\ (r.isNumber /\ r.delay = 1000) <=> n = 10
       /\ Min(n * 100, 2000) = 2000 => ~r.isNumber

C32_Witness ==
  /\ Len(calls) = 2
  /\ calls[1].times = 10
  /\ calls[1].result.isNumber /\ calls[1].result.delay = 1000
  /\ calls[2].times = 20
  /\ ~calls[2].result.isNumber

\* C33: getStatus().connected becomes true in the step that emits 'connect',
\* becomes or stays false in a step that emits 'error' or 'close', in which
\* connect() fails, or in which disconnect() completes, and is left alone by
\* every other step; so it is true exactly when 'connect' was the last of
\* these, and whenever it is true the link is up.
C33_ConnectedFollowsLifecycle ==
  /\ [](getStatus.connected => (subscriber # NULL /\ redis.status \in {"connect", "ready"}))
  /\ [][LET up == redis'.status = "connect" /\ redis.status # "connect"
            down == \/ BusError
                    \/ redis'.status = "close" /\ redis.status # "close"
                    \/ connectResult' = "false" /\ connectResult = "pending"
                    \/ subscriber' = NULL /\ subscriber # NULL
        IN /\ up => isConnected'
           /\ down => ~isConnected'
           /\ (~up /\ ~down) => isConnected' = isConnected]_vars

C33_Witness ==
  /\ getStatus.connected = FALSE
  /\ redis.status = "ready"
  /\ connectResult = "true"
  /\ subscriber # NULL
  /\ shutdown.signals = 0
  /\ redis.retryAttempts = 0
  /\ reconnectAttempts = 0

\* C34: from the return of gracefulShutdown's closeAll() until the process
\* exits the registry is empty and no entry is Alive, so a register() done
\* while disconnect() is awaited leaves no Alive entry with an armed interval.
C34_RegistryStaysDrained ==
  (shutdown.signals > 0 /\ pc # "closeAll" /\ Running)
  => /\ count(Heap) = 0
     /\ timers = {}
     /\ \A e \in EntryIds : ~Alive(e)

====
